---- MODULE Spec2Model ----
(***************************************************************************)
(* Model of the research pipeline of pratihegde/research_agent:            *)
(*   app/agents/planner.py, researcher.py, writer.py  (the three stages)   *)
(*   app/graph/state.py, workflow.py                  (the LangGraph state)*)
(*   app/tools/search.py                              (the search tool)    *)
(*   app/services/streaming.py                        (the SSE generator)  *)
(* Text is modelled as a sequence of string tokens, an optional value as   *)
(* the empty tuple (None) or a one-element tuple.                          *)
(***************************************************************************)
EXTENDS Integers, Sequences, FiniteSets, TLC

VARIABLES
    pc,           \* position of the stream_research generator
    query,        \* request.message
    thread_id,    \* the thread identifier handed to stream_research
    graph_state,  \* the LangGraph channel values (ResearchState, with reducers)
    final_state,  \* the dict stream_research keeps with dict.update
    response,     \* Some(ChatResponse) once _build_response has run
    chunks,       \* report chunks not yet yielded
    events,       \* the events yielded so far, in order
    updates,      \* history: the partial update of every node that ran
    calls,        \* history: every collaborator call issued, with its outcome
    raw,          \* history: every search result returned, in call order
    http,         \* the status /chat answered this request with (0: not yet)
    threads,      \* ThreadManager.threads: thread id -> ConversationThread
    lookup,       \* history: the last call of get_or_create_thread
    other,        \* the request the server handles next to the one above
    focus         \* which of the two requests the variables above describe

\* the variables of one request and its run
run == <<pc, query, thread_id, graph_state, final_state, response, chunks,
         events, updates, calls, raw, http>>

\* the variables of the server around a run
server == <<threads, lookup, other, focus>>

vars == <<pc, query, thread_id, graph_state, final_state, response, chunks,
          events, updates, calls, raw, http, threads, lookup, other, focus>>

----------------------------------------------------------------------------
(* Bounds and program constants *)

\* chunk_size of _chunk_text, scaled down from 500 so that short model texts
\* split into several chunks
ChunkSize == 3

\* sub_q.search_queries[:3]
MaxQueries == 3
\* search(search_query, max_results=3)
MaxResults == 3
\* search_results[:6] in the synthesis fallback
MaxExcerpts == 6
\* the number of results _stub_search holds
StubResults == 5
\* the number of calls of the search tool explored on its own
MaxToolCalls == 2
\* the number of messages the thread manager is explored with on its own
MaxMessages == 2

None == <<>>
Some(x) == <<x>>
Min(a, b) == IF a < b THEN a ELSE b

RECURSIVE Flatten(_)
Flatten(ss) == IF ss = <<>> THEN <<>> ELSE Head(ss) \o Flatten(Tail(ss))

Prefix(s, n) == SubSeq(s, 1, Min(Len(s), n))

----------------------------------------------------------------------------
(* Inputs: the request and the collaborators' possible answers *)

UserQueries == {"causes of inflation"}
ThreadIds == {"t1"}

WorkItem(id, question, queries, priority) ==
    [id |-> id, question |-> question, search_queries |-> queries,
     priority |-> priority]

\* plans the planner's model call may return as well-formed JSON
CandidatePlans ==
    { <<>>,
      << WorkItem("sq1", "A", <<"q1", "q2", "q3", "q4">>, 1) >>,
      << WorkItem("sq1", "A", <<"q1">>, 2), WorkItem("sq2", "B", <<"q2">>, 1) >>,
      << WorkItem("sq1", "A", <<"q1">>, 1), WorkItem("sq2", "B", <<"q1", "q 2">>, 1) >>,
      << WorkItem("sq1", "A", <<"q1">>, 1), WorkItem("sq1", "B", <<"q2">>, 1) >> }

\* the planner's model call raises, answers text that is not JSON, answers a
\* JSON object without "sub_questions", or answers a well-formed list
PlanOutcomes ==
    { [kind |-> "raise"], [kind |-> "unparseable"], [kind |-> "invalid"] }
      \cup { [kind |-> "ok", items |-> p] : p \in CandidatePlans }

Result(title, url, content) == [title |-> title, url |-> url, content |-> content]

\* what the live provider may answer to one search call; "fail" is the
\* provider call raising
SearchOutcomes ==
    { [kind |-> "fail"],
      [kind |-> "ok", results |-> << Result("tA", "u1", "c1") >>],
      [kind |-> "ok", results |-> << Result("tB", "u1", "c2"), Result("tA", "u2", "c3") >>],
      [kind |-> "ok", results |-> << Result("tA", "", "c4") >>] }

\* what the model call of _synthesize_findings may do
SynthOutcomes ==
    { [kind |-> "raise"], [kind |-> "unparseable"],
      [kind |-> "ok", evidence_bullets |-> <<"e1", "e2">>, open_questions |-> <<"o1">>],
      [kind |-> "badshape"] }

\* what the model call of write_report may do
WriteOutcomes ==
    { [kind |-> "raise"], [kind |-> "unparseable"],
      [kind |-> "ok",
       data |-> [report |-> <<"r1", "r2", "r3", "r4">>, executive_summary |-> "s1",
                 key_takeaways |-> <<"k1", "k2">>, limitations |-> "l1"]],
      [kind |-> "ok", data |-> [executive_summary |-> "s1"]] }

----------------------------------------------------------------------------
(* app/tools/search.py *)

\* query.replace(' ', '-')[:30]; every query of the model is shorter than 30
Slug(q) ==
    CASE q = "q 2" -> "q-2"
      [] q = "causes of inflation" -> "causes-of-inflation"
      [] OTHER -> q

\* mutant: the five results are returned whatever max_results is
_stub_search_uncut(q, max_results) ==
    << Result("Research Article: " \o q, "https://example.com/research/" \o Slug(q), "article " \o q),
       Result("Expert Analysis on " \o q, "https://example.com/analysis/" \o Slug(q), "experts " \o q),
       Result("Market Report: " \o q, "https://example.com/market-report/" \o Slug(q), "market " \o q),
       Result("Case Study: " \o q, "https://example.com/case-study/" \o Slug(q), "case " \o q),
       Result("Technical Overview: " \o q, "https://example.com/technical/" \o Slug(q), "technical " \o q) >>

\* the five hard-coded results, cut to max_results
_stub_search(q, max_results) ==
    Prefix(<< Result("Research Article: " \o q, "https://example.com/research/" \o Slug(q), "article " \o q),
              Result("Expert Analysis on " \o q, "https://example.com/analysis/" \o Slug(q), "experts " \o q),
              Result("Market Report: " \o q, "https://example.com/market-report/" \o Slug(q), "market " \o q),
              Result("Case Study: " \o q, "https://example.com/case-study/" \o Slug(q), "case " \o q),
              Result("Technical Overview: " \o q, "https://example.com/technical/" \o Slug(q), "technical " \o q) >>,
           max_results)

\* mutant: the stub's results are returned without the cut to max_results
search_uncapped(q, max_results, outcome) ==
    IF outcome.kind \in {"stub", "fail"} THEN _stub_search(q, 5)
    ELSE outcome.results

\* WebSearchTool.search: the stub's results when the tool was built without an
\* API key (use_stub, outcome "stub") or when the provider call raises
\* (outcome "fail"), the provider's results otherwise
search(q, max_results, outcome) ==
    IF outcome.kind \in {"stub", "fail"} THEN _stub_search(q, max_results)
    ELSE outcome.results

----------------------------------------------------------------------------
(* app/agents/planner.py *)

\* app.models.ResearchPlan: a list of sub-questions of any length (the number
\* of sub-questions is not enforced)
ResearchPlan(sub_questions) == [sub_questions |-> sub_questions]

\* mutant: the fallback plan is returned without the error message
plan_fallback_silent(state, outcome) ==
    IF outcome.kind = "ok"
    THEN [plan |-> Some(ResearchPlan(outcome.items)), sources_analyzed |-> 0]
    ELSE [plan |-> Some(ResearchPlan(
                           << WorkItem("sq1", state.query, <<state.query>>, 1) >>)),
          sources_analyzed |-> 0]

\* PlannerAgent.plan: the partial update it returns
plan(state, outcome) ==
    IF outcome.kind = "ok"
    THEN [plan |-> Some(ResearchPlan(outcome.items)), sources_analyzed |-> 0]
    ELSE [plan |-> Some(ResearchPlan(
                           << WorkItem("sq1", state.query, <<state.query>>, 1) >>)),
          errors |-> <<"Planner agent failed: " \o outcome.kind>>,
          sources_analyzed |-> 0]

----------------------------------------------------------------------------
(* app/agents/researcher.py *)

\* mutant: sq is inserted before the items of equal priority
RECURSIVE InsertByPriority_unstable(_, _)
InsertByPriority_unstable(sorted, sq) ==
    IF sorted = <<>> THEN <<sq>>
    ELSE IF Head(sorted).priority < sq.priority
         THEN <<Head(sorted)>> \o InsertByPriority_unstable(Tail(sorted), sq)
         ELSE <<sq>> \o sorted

\* insert sq after every item whose priority is not greater (stable)
RECURSIVE InsertByPriority(_, _)
InsertByPriority(sorted, sq) ==
    IF sorted = <<>> THEN <<sq>>
    ELSE IF Head(sorted).priority <= sq.priority
         THEN <<Head(sorted)>> \o InsertByPriority(Tail(sorted), sq)
         ELSE <<sq>> \o sorted

\* sorted(plan.sub_questions, key=lambda sq: sq.priority)
RECURSIVE sorted_questions(_)
sorted_questions(items) ==
    IF items = <<>> THEN <<>>
    ELSE InsertByPriority(sorted_questions(Prefix(items, Len(items) - 1)),
                          items[Len(items)])

\* the number of search calls research issues for a plan
RECURSIVE NumCalls(_)
NumCalls(items) ==
    IF items = <<>> THEN 0
    ELSE Min(Len(Head(items).search_queries), MaxQueries) + NumCalls(Tail(items))

\* mutant: the title is read under a wrong key and defaults to "Untitled"
Citation_untitled(r) == [title |-> "Untitled", url |-> r.url]

Citation(r) == [title |-> r.title, url |-> r.url]

\* mutant: a url is only looked up among the results of this sub-question
RECURSIVE Dedup_per_item(_, _, _)
Dedup_per_item(all_results, seen, unique) ==
    IF all_results = <<>> THEN [seen |-> seen, unique |-> unique]
    ELSE LET r == Head(all_results) IN
         IF r.url # "" /\ r.url \notin {unique[i].url : i \in 1..Len(unique)}
         THEN Dedup_per_item(Tail(all_results), seen \cup {r.url}, Append(unique, r))
         ELSE Dedup_per_item(Tail(all_results), seen, unique)

\* the loop over all_results: unique results and the grown seen_urls
RECURSIVE Dedup(_, _, _)
Dedup(all_results, seen, unique) ==
    IF all_results = <<>> THEN [seen |-> seen, unique |-> unique]
    ELSE LET r == Head(all_results) IN
         IF r.url # "" /\ r.url \notin seen
         THEN Dedup(Tail(all_results), seen \cup {r.url}, Append(unique, r))
         ELSE Dedup(Tail(all_results), seen, unique)

\* mutant: the excerpts are cut from the titles
Excerpts_of_titles(search_results) ==
    [i \in 1..Min(Len(search_results), MaxExcerpts) |->
        search_results[i].title \o "..."]

Excerpts(search_results) ==
    [i \in 1..Min(Len(search_results), MaxExcerpts) |->
        search_results[i].content \o "..."]

\* mutant: the model is asked also when there is no search result
_synthesize_findings_no_guard(search_results, outcome) ==
    IF outcome.kind \in {"ok", "badshape"}
    THEN [evidence_bullets |-> IF outcome.kind = "ok" THEN outcome.evidence_bullets
                               ELSE <<"badshape">>,
          open_questions |-> IF outcome.kind = "ok" THEN outcome.open_questions
                             ELSE <<>>]
    ELSE [evidence_bullets |-> Excerpts(search_results),
          open_questions |-> <<"Unable to fully synthesize findings">>]

\* ResearchAgent._synthesize_findings: (evidence_bullets, open_questions)
_synthesize_findings(search_results, outcome) ==
    IF search_results = <<>>
    THEN [evidence_bullets |-> <<"No search results available for this question">>,
          open_questions |-> <<"Unable to find relevant information">>]
    ELSE IF outcome.kind \in {"ok", "badshape"}
    THEN [evidence_bullets |-> IF outcome.kind = "ok" THEN outcome.evidence_bullets
                               ELSE <<"badshape">>,
          open_questions |-> IF outcome.kind = "ok" THEN outcome.open_questions
                             ELSE <<>>]
    ELSE [evidence_bullets |-> Excerpts(search_results),
          open_questions |-> <<"Unable to fully synthesize findings">>]

\* app.models.ResearchNote accepts evidence_bullets that are a list of strings
ValidBullets(outcome) == outcome.kind # "badshape"

ResearchNote(id, bullets, sources, open) ==
    [sub_question_id |-> id, evidence_bullets |-> bullets, sources |-> sources,
     open_questions |-> open]

\* the search calls of one sub-question, in order: all_results
SearchAll(sq, so, first) ==
    Flatten([j \in 1..Min(Len(sq.search_queries), MaxQueries) |->
                search(sq.search_queries[j], MaxResults, so[first + j])])

\* the search calls of one sub-question as issued: the query, the result cap
\* passed and the number of results returned
SearchLog(sq, so, first) ==
    [j \in 1..Min(Len(sq.search_queries), MaxQueries) |->
        [stage |-> "research", collaborator |-> "search", item |-> sq.id,
         query |-> sq.search_queries[j], outcome |-> so[first + j].kind,
         max_results |-> MaxResults,
         returned |-> Len(search(sq.search_queries[j], MaxResults, so[first + j]))]]

\* mutant: the except branch records the error but appends no note
FailedItem_no_note(acc, sq) ==
    [acc EXCEPT !.errors = Append(@, "Research failed for sub-question '"
                                      \o sq.question \o "'")]

\* the except branch of the loop body: an errors entry and a placeholder note
FailedItem(acc, sq) ==
    [acc EXCEPT !.errors = Append(@, "Research failed for sub-question '"
                                      \o sq.question \o "'"),
                !.research_notes = Append(@,
                    ResearchNote(sq.id, <<"Research incomplete due to error">>, <<>>,
                                 <<"Unable to complete research for this question">>))]

\* the end of the try branch: the note is appended, the citations extended
CompletedItem(acc, sq, syn, sub_q_citations) ==
    [acc EXCEPT !.research_notes = Append(@,
                    ResearchNote(sq.id, syn.evidence_bullets, sub_q_citations,
                                 syn.open_questions)),
                !.all_citations = @ \o sub_q_citations]

\* one iteration of the loop over sorted_questions; acc holds the locals of
\* research (and the history of its calls); sy is the outcome of this item's
\* model call
ResearchItem(acc, sq, so, sy) ==
    LET all_results == SearchAll(sq, so, acc.ncalls)
        d == Dedup(all_results, acc.seen_urls, <<>>)
        sub_q_citations == [i \in 1..Len(d.unique) |-> Citation(d.unique[i])]
        syn == _synthesize_findings(d.unique, sy)
        llm == IF d.unique = <<>> THEN <<>>
               ELSE << [stage |-> "research", collaborator |-> "llm",
                        item |-> sq.id, query |-> sq.question, outcome |-> sy.kind,
                        pos |-> Len(acc.research_notes) + 1] >>
        base == [acc EXCEPT !.seen_urls = d.seen,
                            !.total_sources = @ + Len(all_results),
                            !.ncalls = @ + Min(Len(sq.search_queries), MaxQueries),
                            !.raw = @ \o [i \in 1..Len(all_results) |->
                                            [item |-> sq.id, priority |-> sq.priority,
                                             pos |-> Len(acc.research_notes) + 1,
                                             result |-> all_results[i]]],
                            !.calls = @ \o SearchLog(sq, so, acc.ncalls) \o llm]
    IN  IF d.unique # <<>> /\ ~ValidBullets(sy)
        THEN \* ResearchNote(...) rejects the bullets and raises
             FailedItem(base, sq)
        ELSE CompletedItem(base, sq, syn, sub_q_citations)

RECURSIVE ResearchLoop(_, _, _, _, _)
ResearchLoop(acc, items, so, sy, i) ==
    IF i > Len(items) THEN acc
    ELSE ResearchLoop(ResearchItem(acc, items[i], so, sy[i]), items, so, sy, i + 1)

\* mutant: seen_urls is kept on the agent, which every run of the server uses
ResearchLocals_shared_seen ==
    [research_notes |-> <<>>, all_citations |-> <<>>,
     seen_urls |-> {other.raw[j].result.url : j \in 1..Len(other.raw)},
     total_sources |-> 0, errors |-> <<>>, ncalls |-> 0, raw |-> <<>>, calls |-> <<>>]

ResearchLocals ==
    [research_notes |-> <<>>, all_citations |-> <<>>, seen_urls |-> {},
     total_sources |-> 0, errors |-> <<>>, ncalls |-> 0, raw |-> <<>>, calls |-> <<>>]

\* the locals of research when its loop has ended
ResearchRun(state, so, sy) ==
    ResearchLoop(ResearchLocals, sorted_questions(state.plan[1].sub_questions), so, sy, 1)

\* ResearchAgent.research: the partial update it returns
research(state, so, sy) ==
    IF state.plan = None
    THEN [errors |-> <<"No research plan available">>]
    ELSE LET acc == ResearchRun(state, so, sy) IN
         [research_notes |-> acc.research_notes,
          citations |-> acc.all_citations,
          sources_analyzed |-> acc.total_sources,
          errors |-> acc.errors]

----------------------------------------------------------------------------
(* app/agents/writer.py *)

\* dict.get(key, default)
Get(d, key, default) == IF key \in DOMAIN d THEN d[key] ELSE default

RECURSIVE FindingLines(_, _)
FindingLines(research_notes, i) ==
    IF i > Len(research_notes) THEN <<>>
    ELSE <<"### Finding " \o ToString(i)>>
         \o [b \in 1..Len(research_notes[i].evidence_bullets) |->
                "- " \o research_notes[i].evidence_bullets[b]]
         \o FindingLines(research_notes, i + 1)

\* ReportWriterAgent._generate_fallback_report: the lines of the report
_generate_fallback_report(q, research_notes) ==
    << "# Research Report: " \o q, "## Overview",
       "This report presents findings from web research on the query above.",
       "## Findings" >>
    \o FindingLines(research_notes, 1)
    \o << "## Conclusion", "Further analysis recommended based on the findings above." >>

\* mutant: the report is written without the check for empty research notes
write_report_no_guard(state, outcome) ==
    IF outcome.kind = "ok"
    THEN [final_report |-> Some(Get(outcome.data, "report", <<>>)),
          executive_summary |-> Some(Get(outcome.data, "executive_summary", "")),
          key_takeaways |-> Get(outcome.data, "key_takeaways", <<>>),
          limitations |-> Some(Get(outcome.data, "limitations", ""))]
    ELSE [final_report |-> Some(_generate_fallback_report(state.query, state.research_notes)),
          executive_summary |->
              Some("Report generated with limited synthesis due to processing error."),
          key_takeaways |-> <<"See detailed findings in report">>,
          limitations |->
              Some("Report generation encountered errors; synthesis may be incomplete."),
          errors |-> <<"Report writer failed: " \o outcome.kind>>]

\* mutant: the parsed answer is returned as it is, without defaults for the
\* keys it lacks
write_report_no_defaults(state, outcome) ==
    IF state.research_notes = <<>>
    THEN [errors |-> <<"No research notes available to write report">>,
          final_report |-> Some(<<"Unable to generate report due to lack of research data.">>),
          executive_summary |-> Some("Research could not be completed."),
          key_takeaways |-> <<"Unable to generate insights">>,
          limitations |-> Some("Research process failed to collect sufficient data.")]
    ELSE IF outcome.kind = "ok"
    THEN [k \in DOMAIN outcome.data \cap {"executive_summary", "limitations"} |->
              Some(outcome.data[k])]
    ELSE [final_report |-> Some(_generate_fallback_report(state.query, state.research_notes)),
          executive_summary |->
              Some("Report generated with limited synthesis due to processing error."),
          key_takeaways |-> <<"See detailed findings in report">>,
          limitations |->
              Some("Report generation encountered errors; synthesis may be incomplete."),
          errors |-> <<"Report writer failed: " \o outcome.kind>>]

\* ReportWriterAgent.write_report: the partial update it returns
write_report(state, outcome) ==
    IF state.research_notes = <<>>
    THEN [errors |-> <<"No research notes available to write report">>,
          final_report |-> Some(<<"Unable to generate report due to lack of research data.">>),
          executive_summary |-> Some("Research could not be completed."),
          key_takeaways |-> <<"Unable to generate insights">>,
          limitations |-> Some("Research process failed to collect sufficient data.")]
    ELSE IF outcome.kind = "ok"
    THEN [final_report |-> Some(Get(outcome.data, "report", <<>>)),
          executive_summary |-> Some(Get(outcome.data, "executive_summary", "")),
          key_takeaways |-> Get(outcome.data, "key_takeaways", <<>>),
          limitations |-> Some(Get(outcome.data, "limitations", ""))]
    ELSE [final_report |-> Some(_generate_fallback_report(state.query, state.research_notes)),
          executive_summary |->
              Some("Report generated with limited synthesis due to processing error."),
          key_takeaways |-> <<"See detailed findings in report">>,
          limitations |->
              Some("Report generation encountered errors; synthesis may be incomplete."),
          errors |-> <<"Report writer failed: " \o outcome.kind>>]

\* the model calls write_report issues: none when there are no research notes
write_report_calls(state, outcome) ==
    IF state.research_notes = <<>> THEN <<>>
    ELSE << [stage |-> "write_report", collaborator |-> "llm", item |-> "",
             query |-> state.query, outcome |-> outcome.kind] >>

----------------------------------------------------------------------------
(* app/graph/state.py and the state handling of stream_research *)

\* the fields of ResearchState annotated with operator.add
Appendable == {"research_notes", "key_takeaways", "citations", "errors"}

\* initial_state of stream_research
initial_state(q, t) ==
    [query |-> q, thread_id |-> t, plan |-> None, research_notes |-> <<>>,
     final_report |-> None, executive_summary |-> None, key_takeaways |-> <<>>,
     limitations |-> None, citations |-> <<>>, errors |-> <<>>,
     sources_analyzed |-> 0]

\* how the graph applies a node's partial update to its channels
GraphMerge(state, output) ==
    [k \in DOMAIN state |->
        IF k \notin DOMAIN output THEN state[k]
        ELSE IF k \in Appendable THEN state[k] \o output[k]
        ELSE output[k]]

\* final_state.update(output)
DictUpdate(state, output) ==
    [k \in DOMAIN state \cup DOMAIN output |->
        IF k \in DOMAIN output THEN output[k] ELSE state[k]]

----------------------------------------------------------------------------
(* app/services/threads.py *)

\* the values uuid.uuid4() may yield; it never yields a value it has yielded
\* before nor one a client has sent
Uuids == {"u1", "u2"}

FreshIds(registry) == Uuids \ DOMAIN registry

Message(role, content) == [role |-> role, content |-> content]

ConversationThread(tid) == [thread_id |-> tid, messages |-> <<>>]

\* ThreadManager.create_thread with new_id the value of uuid4: the registry
\* afterwards
create_thread(registry, new_id) ==
    [k \in DOMAIN registry \cup {new_id} |->
        IF k = new_id THEN ConversationThread(new_id) ELSE registry[k]]

\* ThreadManager.get_thread
get_thread(registry, tid) ==
    IF tid \in DOMAIN registry THEN Some(registry[tid]) ELSE None

\* thread_id and thread_id in self.threads, for an optional thread_id
Known(registry, requested) ==
    /\ requested # None
    /\ requested[1] # ""
    /\ requested[1] \in DOMAIN registry

\* the values uuid4 may yield in a call of get_or_create_thread ("" when it is
\* not called)
NewIds(registry, requested) ==
    IF Known(registry, requested) THEN {""} ELSE FreshIds(registry)

\* mutant: an unknown identifier sent by the client becomes the key of the new
\* thread
get_or_create_thread_adopting(registry, requested, new_id) ==
    IF Known(registry, requested)
    THEN [thread_id |-> requested[1], thread |-> registry[requested[1]],
          threads |-> registry]
    ELSE LET id == IF requested # None /\ requested[1] # "" THEN requested[1]
                   ELSE new_id
             created == create_thread(registry, id)
         IN  [thread_id |-> id, thread |-> created[id], threads |-> created]

\* ThreadManager.get_or_create_thread: the pair it returns and the registry
\* afterwards; requested is the optional thread_id
get_or_create_thread(registry, requested, new_id) ==
    IF Known(registry, requested)
    THEN [thread_id |-> requested[1], thread |-> registry[requested[1]],
          threads |-> registry]
    ELSE LET created == create_thread(registry, new_id)
         IN  [thread_id |-> new_id, thread |-> created[new_id], threads |-> created]

\* ConversationThread.get_history: the messages as dicts, in the order of the
\* list (timestamps are left out of the model)
get_history(thread) ==
    [i \in 1..Len(thread.messages) |->
        [role |-> thread.messages[i].role, content |-> thread.messages[i].content]]

\* mutant: a message for an identifier no thread has opens a thread for it
add_message_creating(registry, tid, role, content) ==
    IF get_thread(registry, tid) # None
    THEN [registry EXCEPT ![tid].messages = Append(@, Message(role, content))]
    ELSE [k \in DOMAIN registry \cup {tid} |->
             IF k = tid
             THEN [thread_id |-> tid, messages |-> <<Message(role, content)>>]
             ELSE registry[k]]

\* ThreadManager.add_message: the registry afterwards
add_message(registry, tid, role, content) ==
    IF get_thread(registry, tid) # None
    THEN [registry EXCEPT ![tid].messages = Append(@, Message(role, content))]
    ELSE registry

\* the optional thread_id a client may send: none, the empty string, an
\* identifier no thread has, or the identifier of a thread
ThreadRequests(registry) ==
    {None, Some(""), Some("zz")} \cup {Some(k) : k \in DOMAIN registry}

RECURSIVE SumOf(_, _)
SumOf(f, S) ==
    IF S = {} THEN 0
    ELSE LET k == CHOOSE x \in S : TRUE IN f[k] + SumOf(f, S \ {k})

\* the number of messages the registry holds
MessageCount(registry) ==
    SumOf([k \in DOMAIN registry |-> Len(registry[k].messages)], DOMAIN registry)

----------------------------------------------------------------------------
(* app/graph/workflow.py *)

\* workflow.set_entry_point("plan")
EntryPoint == "plan"

\* mutant: the edge out of plan leads to write_report
NextNode_skips_research(node) ==
    CASE node = "plan" -> "write"
      [] node = "research" -> "write"
      [] node = "write" -> "build"

\* the edges plan -> research -> write_report -> END; the generator's position
\* "write" stands for the write_report node and "build" for the end of the
\* stream of updates
NextNode(node) ==
    CASE node = "plan" -> "research"
      [] node = "research" -> "write"
      [] node = "write" -> "build"

----------------------------------------------------------------------------
(* app/services/streaming.py *)

\* mutant: each new citation is put in front of the list
RECURSIVE unique_citations_prepending(_, _)
unique_citations_prepending(citations, seen_urls) ==
    IF citations = <<>> THEN <<>>
    ELSE IF Head(citations).url \notin seen_urls
         THEN unique_citations_prepending(Tail(citations),
                                          seen_urls \cup {Head(citations).url})
              \o <<Head(citations)>>
         ELSE unique_citations_prepending(Tail(citations), seen_urls)

\* the citation loop of _build_response
RECURSIVE unique_citations(_, _)
unique_citations(citations, seen_urls) ==
    IF citations = <<>> THEN <<>>
    ELSE IF Head(citations).url \notin seen_urls
         THEN <<Head(citations)>>
              \o unique_citations(Tail(citations), seen_urls \cup {Head(citations).url})
         ELSE unique_citations(Tail(citations), seen_urls)

\* mutant: the metadata counts the research notes and the citations
_build_response_counting_lists(state, t) ==
    [thread_id |-> t,
     query |-> state.query,
     executive_summary |-> state.executive_summary,
     report |-> state.final_report,
     key_takeaways |-> state.key_takeaways,
     limitations |-> state.limitations,
     citations |-> unique_citations(state.citations, {}),
     metadata |-> [sub_question_count |-> Len(state.research_notes),
                   sources_analyzed |-> Len(state.citations)]]

\* StreamingService._build_response
_build_response(state, t) ==
    [thread_id |-> t,
     query |-> state.query,
     executive_summary |-> state.executive_summary,
     report |-> state.final_report,
     key_takeaways |-> state.key_takeaways,
     limitations |-> state.limitations,
     citations |-> unique_citations(state.citations, {}),
     metadata |-> [sub_question_count |->
                       IF state.plan = None THEN 0
                       ELSE Len(state.plan[1].sub_questions),
                   sources_analyzed |-> state.sources_analyzed]]

\* mutant: each slice starts on the last position of the slice before it
RECURSIVE Slices_overlapping(_, _)
Slices_overlapping(text, chunk_size) ==
    IF text = <<>> THEN <<>>
    ELSE <<Prefix(text, chunk_size)>>
         \o Slices_overlapping(SubSeq(text, chunk_size, Len(text)), chunk_size)

\* StreamingService._chunk_text on an optional text
RECURSIVE Slices(_, _)
Slices(text, chunk_size) ==
    IF text = <<>> THEN <<>>
    ELSE <<Prefix(text, chunk_size)>>
         \o Slices(SubSeq(text, chunk_size + 1, Len(text)), chunk_size)

\* mutant: no early return for an empty text, which becomes one empty chunk
_chunk_text_no_guard(text, chunk_size) ==
    IF text = None THEN <<>>
    ELSE IF text[1] = <<>> THEN << <<>> >> ELSE Slices(text[1], chunk_size)

_chunk_text(text, chunk_size) ==
    IF text = None \/ text[1] = <<>> THEN <<>> ELSE Slices(text[1], chunk_size)

Event(type, data) == [type |-> type, data |-> data]

LlmCall(stage, q, outcome) ==
    [stage |-> stage, collaborator |-> "llm", item |-> "", query |-> q,
     outcome |-> outcome.kind]

\* a request slot the server has not received anything for
NoRun ==
    [pc |-> "request", query |-> "", thread_id |-> "", graph_state |-> None,
     final_state |-> None, response |-> None, chunks |-> <<>>, events |-> <<>>,
     updates |-> <<>>, calls |-> <<>>, raw |-> <<>>, http |-> 0]

Init ==
    /\ pc = "idle"
    /\ http = 0
    /\ threads = <<>>
    /\ lookup = None
    /\ other = NoRun
    /\ focus = 1
    /\ query = ""
    /\ thread_id = ""
    /\ graph_state = None
    /\ final_state = None
    /\ response = None
    /\ chunks = <<>>
    /\ events = <<>>
    /\ updates = <<>>
    /\ calls = <<>>
    /\ raw = <<>>

\* mutant: the initial state is built but the thread_id event is not yielded
StartRun_silent(q, t) ==
    /\ pc = "idle"
    /\ query' = q
    /\ thread_id' = t
    /\ graph_state' = initial_state(q, t)
    /\ final_state' = initial_state(q, t)
    /\ pc' = EntryPoint
    /\ UNCHANGED <<events, response, chunks, updates, calls, raw>>
    /\ UNCHANGED <<http, threads, lookup, other, focus>>

\* stream_research up to its first yield, and the initial state it builds
StartRun(q, t) ==
    /\ pc = "idle"
    /\ query' = q
    /\ thread_id' = t
    /\ events' = Append(events, Event("thread_id", [thread_id |-> t]))
    /\ graph_state' = initial_state(q, t)
    /\ final_state' = initial_state(q, t)
    /\ pc' = EntryPoint
    /\ UNCHANGED <<response, chunks, updates, calls, raw>>
    /\ UNCHANGED <<http, threads, lookup, other, focus>>

\* the plan node runs, its update is merged, the planning event is yielded
PlanNode(outcome) ==
    /\ pc = "plan"
    /\ LET output == plan(graph_state, outcome)
           sub_count == IF output.plan = None THEN 0
                        ELSE Len(output.plan[1].sub_questions)
       IN  /\ graph_state' = GraphMerge(graph_state, output)
           /\ final_state' = DictUpdate(final_state, output)
           /\ updates' = Append(updates, [node |-> "plan", output |-> output])
           /\ events' = Append(events,
                  Event("planning", [sub_question_count |-> sub_count]))
    /\ calls' = Append(calls, LlmCall("plan", graph_state.query, outcome))
    /\ pc' = NextNode("plan")
    /\ UNCHANGED <<query, thread_id, response, chunks, raw>>
    /\ UNCHANGED <<http, threads, lookup, other, focus>>

\* the research node runs, its update is merged, research_progress is yielded
ResearchWith(so, sy) ==
    /\ LET output == research(graph_state, so, sy)
           acc == ResearchRun(graph_state, so, sy)
       IN  /\ graph_state' = GraphMerge(graph_state, output)
           /\ final_state' = DictUpdate(final_state, output)
           /\ updates' = Append(updates, [node |-> "research", output |-> output])
           /\ events' = Append(events,
                  Event("research_progress",
                        [sources_analyzed |-> Get(output, "sources_analyzed", 0)]))
           /\ calls' = calls \o acc.calls
           /\ raw' = raw \o acc.raw
    /\ pc' = NextNode("research")
    /\ UNCHANGED <<query, thread_id, response, chunks>>
    /\ UNCHANGED <<http, threads, lookup, other, focus>>

\* the node under every answer of the search provider (one per search call)
\* and of the model (one per sub-question)
ResearchNode ==
    /\ pc = "research"
    /\ \E so \in [1..NumCalls(graph_state.plan[1].sub_questions) -> SearchOutcomes],
          sy \in [1..Len(graph_state.plan[1].sub_questions) -> SynthOutcomes] :
            ResearchWith(so, sy)

\* the write_report node runs, its update is merged, the writing event is yielded
WriteNode(outcome) ==
    /\ pc = "write"
    /\ LET output == write_report(graph_state, outcome)
       IN  /\ graph_state' = GraphMerge(graph_state, output)
           /\ final_state' = DictUpdate(final_state, output)
           /\ updates' = Append(updates, [node |-> "write_report", output |-> output])
    /\ events' = Append(events, Event("writing", [status |-> "Synthesis complete"]))
    /\ calls' = calls \o write_report_calls(graph_state, outcome)
    /\ pc' = NextNode("write")
    /\ UNCHANGED <<query, thread_id, response, chunks, raw>>
    /\ UNCHANGED <<http, threads, lookup, other, focus>>

\* mutant: the fault is reported but the generator goes on with the next node
StageFault_goes_on ==
    /\ pc \in {"plan", "research", "write"}
    /\ events' = Append(events,
           Event("error", [error |-> "node " \o pc \o " raised",
                           detail |-> "Research workflow failed",
                           thread_id |-> thread_id]))
    /\ pc' = CASE pc = "plan" -> "error" [] pc = "research" -> "write"
                [] OTHER -> "build"
    /\ UNCHANGED <<query, thread_id, graph_state, final_state, response, chunks,
                   updates, calls, raw>>
    /\ UNCHANGED <<http, threads, lookup, other, focus>>

\* mutant: a raising research or write_report node is skipped, a message is
\* appended to errors and the run goes on with the next node
StageFault_skips_node ==
    /\ pc \in {"plan", "research", "write"}
    /\ IF pc = "plan"
       THEN /\ events' = Append(events,
                   Event("error", [error |-> "node " \o pc \o " raised",
                                   detail |-> "Research workflow failed",
                                   thread_id |-> thread_id]))
            /\ pc' = "error"
            /\ UNCHANGED <<graph_state, final_state>>
       ELSE /\ graph_state' = [graph_state EXCEPT !.errors = Append(@, "node raised")]
            /\ final_state' = [final_state EXCEPT !.errors = Append(@, "node raised")]
            /\ pc' = IF pc = "research" THEN "write" ELSE "build"
            /\ UNCHANGED events
    /\ UNCHANGED <<query, thread_id, response, chunks, updates, calls, raw>>
    /\ UNCHANGED <<http, threads, lookup, other, focus>>

\* graph.astream raises while a node runs: the except branch of stream_research
StageFault ==
    /\ pc \in {"plan", "research", "write"}
    /\ events' = Append(events,
           Event("error", [error |-> "node " \o pc \o " raised",
                           detail |-> "Research workflow failed",
                           thread_id |-> thread_id]))
    /\ pc' = "error"
    /\ UNCHANGED <<query, thread_id, graph_state, final_state, response, chunks,
                   updates, calls, raw>>
    /\ UNCHANGED <<http, threads, lookup, other, focus>>

\* the stream of updates has ended: the response is built and its report cut
BuildResponse ==
    /\ pc = "build"
    /\ LET r == _build_response(final_state, thread_id)
       IN  /\ response' = Some(r)
           /\ chunks' = _chunk_text(r.report, ChunkSize)
    /\ pc' = "stream"
    /\ UNCHANGED <<query, thread_id, graph_state, final_state, events, updates,
                   calls, raw>>
    /\ UNCHANGED <<http, threads, lookup, other, focus>>

\* one pass of the loop over report_chunks
EmitChunk ==
    /\ pc = "stream"
    /\ chunks # <<>>
    /\ events' = Append(events, Event("message", [content |-> Head(chunks)]))
    /\ chunks' = Tail(chunks)
    /\ UNCHANGED <<pc, query, thread_id, graph_state, final_state, response,
                   updates, calls, raw>>
    /\ UNCHANGED <<http, threads, lookup, other, focus>>

\* mutant: the generator ends without its final yield
EmitDone_missing ==
    /\ pc = "stream"
    /\ chunks = <<>>
    /\ pc' = "done"
    /\ UNCHANGED <<query, thread_id, graph_state, final_state, response, chunks,
                   events, updates, calls, raw>>
    /\ UNCHANGED <<http, threads, lookup, other, focus>>

\* the final yield of stream_research
EmitDone ==
    /\ pc = "stream"
    /\ chunks = <<>>
    /\ events' = Append(events, Event("done", response[1]))
    /\ pc' = "done"
    /\ UNCHANGED <<query, thread_id, graph_state, final_state, response, chunks,
                   updates, calls, raw>>
    /\ UNCHANGED <<http, threads, lookup, other, focus>>

\* one call of the search tool by a caller of its own: the arguments and what
\* the provider does
ToolQueries == {"q1", "q 2"}
ToolMaxResults == {0, 1, 3, 5, 7}
ToolOutcomes == SearchOutcomes \cup {[kind |-> "stub"]}

ToolCall(q, max_results, outcome) ==
    /\ pc = "idle"
    /\ Len(calls) < MaxToolCalls
    /\ LET results == search(q, max_results, outcome)
       IN  /\ calls' = Append(calls,
                  [stage |-> "tool", collaborator |-> "search", item |-> "",
                   query |-> q, outcome |-> outcome.kind,
                   max_results |-> max_results, returned |-> Len(results),
                   results |-> results])
           /\ raw' = raw \o [i \in 1..Len(results) |->
                                [item |-> "", priority |-> 0, pos |-> Len(calls) + 1,
                                 result |-> results[i]]]
    /\ UNCHANGED <<pc, query, thread_id, graph_state, final_state, response,
                   chunks, events, updates>>
    /\ UNCHANGED <<http, threads, lookup, other, focus>>

----------------------------------------------------------------------------
(* app/main.py *)

\* the messages a client may send
ChatMessages == {"causes of inflation", "", "  "}

\* message.strip(), on the messages above
Strip(message) == IF message = "  " THEN "" ELSE message

\* mutant: the thread is looked up or created before the message is checked
chat_validating_late(registry, message, requested, new_id) ==
    LET r == get_or_create_thread(registry, requested, new_id) IN
    IF message = "" \/ Strip(message) = ""
    THEN [status |-> 400, threads |-> r.threads]
    ELSE [status |-> 200,
          threads |-> add_message(r.threads, r.thread_id, "user", message),
          found |-> r]

\* mutant: the message is added under the thread id of the request
chat_adding_to_requested(registry, message, requested, new_id) ==
    IF message = "" \/ Strip(message) = ""
    THEN [status |-> 400, threads |-> registry]
    ELSE LET r == get_or_create_thread(registry, requested, new_id)
         IN  [status |-> 200,
              threads |-> add_message(r.threads,
                                      IF requested = None THEN "" ELSE requested[1],
                                      "user", message),
              found |-> r]

\* the /chat handler up to its return: the status it answers with, the
\* registry afterwards and, when the request is accepted, what
\* get_or_create_thread returned
chat(registry, message, requested, new_id) ==
    IF message = "" \/ Strip(message) = ""
    THEN [status |-> 400, threads |-> registry]
    ELSE LET r == get_or_create_thread(registry, requested, new_id)
         IN  [status |-> 200,
              threads |-> add_message(r.threads, r.thread_id, "user", message),
              found |-> r]

\* one request to /chat: rejected, or accepted with a stream whose generator
\* has not started yet
Chat(message, requested, new_id) ==
    /\ pc = "request"
    /\ LET c == chat(threads, message, requested, new_id)
       IN  /\ http' = c.status
           /\ threads' = c.threads
           /\ IF c.status = 200
              THEN /\ pc' = "idle"
                   /\ query' = message
                   /\ thread_id' = c.found.thread_id
                   /\ lookup' = Some([requested |-> requested,
                                      thread_id |-> c.found.thread_id,
                                      thread |-> c.found.thread,
                                      before |-> threads,
                                      after |-> c.found.threads])
              ELSE /\ pc' = "rejected"
                   /\ UNCHANGED <<query, thread_id, lookup>>
    /\ UNCHANGED <<graph_state, final_state, response, chunks, events, updates,
                   calls, raw, other, focus>>

ChatRequest ==
    \E message \in ChatMessages, requested \in ThreadRequests(threads) :
        \E new_id \in NewIds(threads, requested) : Chat(message, requested, new_id)

\* event_generator starts stream_research with the message and the thread id
ServerStart ==
    /\ http = 200
    /\ StartRun(query, thread_id)

\* the collaborators' answers the server is explored with
ServerPlanOutcomes == {[kind |-> "raise"]}
ServerSearchOutcomes ==
    { [kind |-> "fail"],
      [kind |-> "ok", results |-> << Result("tB", "u1", "c2"), Result("tA", "u2", "c3") >>] }
ServerSynthOutcomes == {[kind |-> "raise"]}
ServerWriteOutcomes ==
    { [kind |-> "ok",
       data |-> [report |-> <<"r1", "r2", "r3", "r4">>, executive_summary |-> "s1",
                 key_takeaways |-> <<"k1", "k2">>, limitations |-> "l1"]] }

ServerPlan == \E o \in ServerPlanOutcomes : PlanNode(o)

ServerResearch ==
    /\ pc = "research"
    /\ \E so \in [1..NumCalls(graph_state.plan[1].sub_questions) -> ServerSearchOutcomes],
          sy \in [1..Len(graph_state.plan[1].sub_questions) -> ServerSynthOutcomes] :
            ResearchWith(so, sy)

ServerWrite == \E o \in ServerWriteOutcomes : WriteNode(o)

\* mutant: the closing of the generator is caught and reported
Disconnect_reported ==
    /\ pc \in {"plan", "research", "write", "build", "stream"}
    /\ pc' = "closed"
    /\ events' = Append(events,
           Event("error", [error |-> "closed", detail |-> "Research workflow failed",
                           thread_id |-> thread_id]))
    /\ UNCHANGED <<query, thread_id, graph_state, final_state, response, chunks,
                   updates, calls, raw, http, threads, lookup, other, focus>>

\* the subscriber closes the stream while the generator is suspended at a
\* yield: the generator is closed there (GeneratorExit, or CancelledError in
\* the sleep after a chunk), which its except Exception does not catch
Disconnect ==
    /\ pc \in {"plan", "research", "write", "build", "stream"}
    /\ pc' = "closed"
    /\ UNCHANGED <<query, thread_id, graph_state, final_state, response, chunks,
                   events, updates, calls, raw, http, threads, lookup, other, focus>>

\* the request the variables describe, as a record
Current ==
    [pc |-> pc, query |-> query, thread_id |-> thread_id,
     graph_state |-> graph_state, final_state |-> final_state,
     response |-> response, chunks |-> chunks, events |-> events,
     updates |-> updates, calls |-> calls, raw |-> raw, http |-> http]

\* the event loop turns to the server's other request
Switch ==
    /\ focus' = 3 - focus
    /\ other' = Current
    /\ pc' = other.pc
    /\ query' = other.query
    /\ thread_id' = other.thread_id
    /\ graph_state' = other.graph_state
    /\ final_state' = other.final_state
    /\ response' = other.response
    /\ chunks' = other.chunks
    /\ events' = other.events
    /\ updates' = other.updates
    /\ calls' = other.calls
    /\ raw' = other.raw
    /\ http' = other.http
    /\ UNCHANGED <<threads, lookup>>

\* a call of get_or_create_thread by a client of the thread manager
GetOrCreate(requested, new_id) ==
    /\ pc = "idle"
    /\ LET r == get_or_create_thread(threads, requested, new_id)
       IN  /\ threads' = r.threads
           /\ lookup' = Some([requested |-> requested, thread_id |-> r.thread_id,
                              thread |-> r.thread, before |-> threads,
                              after |-> r.threads])
    /\ UNCHANGED <<pc, query, thread_id, graph_state, final_state, response,
                   chunks, events, updates, calls, raw, http, other, focus>>

\* a call of add_message by a client of the thread manager, MaxMessages calls
\* at most; calls keeps the arguments of each call and the registry before
\* and after it
AddMessage(id, role, content) ==
    /\ pc = "idle"
    /\ Len(calls) < MaxMessages
    /\ threads' = add_message(threads, id, role, content)
    /\ calls' = Append(calls, [thread_id |-> id, role |-> role, content |-> content,
                               before |-> threads,
                               after |-> add_message(threads, id, role, content)])
    /\ UNCHANGED <<pc, query, thread_id, graph_state, final_state, response,
                   chunks, events, updates, raw, http, lookup, other, focus>>

Next ==
    \/ \E q \in UserQueries, t \in ThreadIds : StartRun(q, t)
    \/ \E o \in PlanOutcomes : PlanNode(o)
    \/ ResearchNode
    \/ \E o \in WriteOutcomes : WriteNode(o)
    \/ StageFault
    \/ BuildResponse
    \/ EmitChunk
    \/ EmitDone

Spec == Init /\ [][Next]_vars

ToolNext ==
    \E q \in ToolQueries, n \in ToolMaxResults, o \in ToolOutcomes : ToolCall(q, n, o)

\* the search tool on its own, called MaxToolCalls times
SearchSpec == Init /\ [][ToolNext]_vars

GetOrCreateCall ==
    \E requested \in ThreadRequests(threads) :
        \E new_id \in NewIds(threads, requested) : GetOrCreate(requested, new_id)

AddMessageCall ==
    \E id \in DOMAIN threads \cup {"", "zz"}, role \in {"user", "assistant"},
       content \in {"m1", "m2"} : AddMessage(id, role, content)

ThreadNext ==
    \/ GetOrCreateCall
    \/ AddMessageCall

\* the thread manager on its own, under any sequence of calls
ThreadSpec == Init /\ [][ThreadNext]_vars

\* the server before any request
ServerInit ==
    /\ pc = "request"
    /\ query = ""
    /\ thread_id = ""
    /\ graph_state = None
    /\ final_state = None
    /\ response = None
    /\ chunks = <<>>
    /\ events = <<>>
    /\ updates = <<>>
    /\ calls = <<>>
    /\ raw = <<>>
    /\ http = 0
    /\ threads = <<>>
    /\ lookup = None
    /\ other = NoRun
    /\ focus = 1

ServerNext ==
    \/ ChatRequest
    \/ ServerStart
    \/ ServerPlan
    \/ ServerResearch
    \/ ServerWrite
    \/ StageFault
    \/ BuildResponse
    \/ EmitChunk
    \/ EmitDone
    \/ Disconnect
    \/ Switch

\* two requests to /chat handled by one server, their steps interleaved in
\* any order, each stream consumed to its end or closed by its subscriber
ServerSpec == ServerInit /\ [][ServerNext]_vars

\* The subscriber keeps consuming and every collaborator call returns or
\* raises, so every node that has started returns and the generator is resumed
\* after every yield. The research node is enabled exactly when pc is
\* "research" and each of its steps leaves "research": its weak fairness is
\* stated on pc.
FairSpec ==
    /\ Spec
    /\ WF_vars(\E o \in PlanOutcomes : PlanNode(o))
    /\ []<>(pc # "research")
    /\ WF_vars(\E o \in WriteOutcomes : WriteNode(o))
    /\ WF_vars(BuildResponse)
    /\ WF_vars(EmitChunk)
    /\ WF_vars(EmitDone)

----------------------------------------------------------------------------
(* Properties of the event stream *)

Types == [i \in 1..Len(events) |-> events[i].type]
Messages(n) == [i \in 1..n |-> "message"]
Progress == <<"thread_id", "planning", "research_progress", "writing">>
IsTerminal(e) == e.type \in {"done", "error"}

\* C1 as stated: a run that ends without a fault has emitted thread_id,
\* planning, research_progress, writing, one or more message events and done,
\* and nothing else.
C1_OneOrMoreMessages ==
    pc = "done" =>
        \E n \in 1..Len(events) : Types = Progress \o Messages(n) \o <<"done">>

\* C1 amended: a run that ends without a fault has emitted thread_id, planning,
\* research_progress, writing, then one message event per chunk of the report
\* (none when the report is empty, at least one otherwise), then done, and
\* nothing else.
C1_EventSequence ==
    pc = "done" =>
        LET n == Len(events) - Len(Progress) - 1 IN
        /\ n >= 0
        /\ Types = Progress \o Messages(n) \o <<"done">>
        /\ (n = 0) <=> (response[1].report[1] = <<>>)

C1_Witness ==
    /\ pc = "done"
    /\ Cardinality({i \in 1..Len(events) : events[i].type = "message"}) >= 2

\* C2: at every moment of every run a done or error event is the last event
\* emitted (so there is at most one of them and nothing follows it), and an
\* error event carries the thread identifier and a message.
C2_OneTerminalEvent ==
    \A i \in 1..Len(events) :
        IsTerminal(events[i]) =>
            /\ i = Len(events)
            /\ events[i].type = "error" =>
                  /\ events[i].data.thread_id = thread_id
                  /\ events[i].data.error # ""

C2_Witness ==
    /\ pc = "error"
    /\ Len(events) = 3
    /\ events[3].type = "error"
    /\ events[2].type = "planning"

\* C3: the first event of every run is the thread identifier announcement.
C3_ThreadIdFirst ==
    events # <<>> =>
        /\ events[1].type = "thread_id"
        /\ events[1].data.thread_id = thread_id

C3_Witness ==
    /\ Len(events) = 2
    /\ events[2].type = "error"

----------------------------------------------------------------------------
(* Termination *)

Last(seq) == seq[Len(seq)]

\* the stream has ended with done, after every chunk of the report the done
\* event carries, or with an error event
Terminated ==
    /\ events # <<>>
    /\ \/ /\ pc = "error"
          /\ Last(events).type = "error"
       \/ /\ pc = "done"
          /\ Last(events).type = "done"
          /\ chunks = <<>>
          /\ Last(events).data.report # None
          /\ Last(events).data.executive_summary # None
          /\ Last(events).data.limitations # None

\* C4: under every outcome of the model and search calls, a run that has
\* started eventually emits a terminal event: done with a complete response,
\* or error.
C4_EventuallyTerminal == (pc = "plan") ~> Terminated

C4_Witness ==
    /\ Terminated
    /\ pc = "done"
    /\ \E i \in 1..Len(calls) : calls[i].outcome \in {"raise", "unparseable", "fail"}

----------------------------------------------------------------------------
(* The Research stage *)

AfterResearch == pc \in {"write", "build", "stream", "done"}
PlanItems == graph_state.plan[1].sub_questions
Notes == graph_state.research_notes

FirstAt(url) ==
    CHOOSE j \in 1..Len(raw) :
        /\ raw[j].result.url = url
        /\ \A k \in 1..(j - 1) : raw[k].result.url # url

\* C6: the citations of the done event have pairwise distinct urls, each is
\* the url of a search result, its title is the title of the first result
\* with that url, and the results were obtained in ascending priority of
\* their sub-questions.
C6_CitationsUnique ==
    \A e \in 1..Len(events) :
        events[e].type = "done" =>
            LET cs == events[e].data.citations IN
            /\ \A a, b \in 1..Len(cs) : a # b => cs[a].url # cs[b].url
            /\ \A a \in 1..Len(cs) :
                  /\ \E j \in 1..Len(raw) : raw[j].result.url = cs[a].url
                  /\ cs[a].title = raw[FirstAt(cs[a].url)].result.title
            /\ \A j, k \in 1..Len(raw) : j < k => raw[j].priority <= raw[k].priority

C6_Witness ==
    /\ pc = "done"
    /\ \E a \in 1..Len(Last(events).data.citations) :
          \E j, k \in 1..Len(raw) :
              /\ j < k
              /\ raw[j].item # raw[k].item
              /\ raw[j].priority < raw[k].priority
              /\ raw[j].result.url = Last(events).data.citations[a].url
              /\ raw[k].result.url = raw[j].result.url
              /\ raw[k].result.title # raw[j].result.title

----------------------------------------------------------------------------
(* Faults *)

\* the values a list field had in the partial updates, concatenated in order
Concat(field) ==
    Flatten([u \in 1..Len(updates) |-> Get(updates[u].output, field, <<>>)])

AllModelCallsRaise ==
    \A i \in 1..Len(calls) :
        calls[i].collaborator = "llm" => calls[i].outcome = "raise"

\* C8: while every model call raises, the plan is the single sub-question made
\* of the query, every note with sources has as bullets the excerpts of its
\* sources' contents, the report lists each note's bullets under its heading,
\* and a run that ends without a node raising ends with done and has emitted
\* no error event.
C8_AllModelCallsRaise ==
    AllModelCallsRaise =>
        /\ pc \in {"research", "write", "build", "stream", "done"} =>
              PlanItems = << [id |-> "sq1", question |-> query,
                              search_queries |-> <<query>>, priority |-> 1] >>
        /\ AfterResearch =>
              \A i \in 1..Len(Notes) :
                  Notes[i].sources # <<>> =>
                      /\ Len(Notes[i].evidence_bullets) = Min(Len(Notes[i].sources), MaxExcerpts)
                      /\ \A j \in 1..Len(Notes[i].evidence_bullets) :
                            Notes[i].evidence_bullets[j] =
                                raw[FirstAt(Notes[i].sources[j].url)].result.content \o "..."
        /\ pc \in {"build", "stream", "done"} =>
              LET report == graph_state.final_report[1]
                  bullets == Notes[1].evidence_bullets
              IN  /\ Len(report) = 7 + Len(bullets)
                  /\ report[1] = "# Research Report: " \o query
                  /\ report[5] = "### Finding 1"
                  /\ \A j \in 1..Len(bullets) : report[5 + j] = "- " \o bullets[j]
                  /\ final_state.final_report = graph_state.final_report
        /\ pc = "done" =>
              /\ Last(events).type = "done"
              /\ Last(events).data.report = graph_state.final_report
              /\ \A i \in 1..Len(events) : events[i].type # "error"

C8_Witness ==
    /\ pc = "done"
    /\ AllModelCallsRaise
    /\ Cardinality({i \in 1..Len(calls) : calls[i].collaborator = "llm"}) = 3
    /\ Len(Notes[1].sources) >= 2

\* the collaborator calls of a node that failed and were recovered inside it
RecoveredFaults(node) ==
    {i \in 1..Len(calls) :
        /\ calls[i].stage = node
        /\ calls[i].outcome \in {"raise", "unparseable", "fail", "badshape"}}

\* C9 as stated: the partial update of every node in which a collaborator
\* call failed and was recovered carries an errors entry.
C9_FaultsBecomeErrors ==
    \A u \in 1..Len(updates) :
        RecoveredFaults(updates[u].node) # {} =>
            /\ "errors" \in DOMAIN updates[u].output
            /\ updates[u].output.errors # <<>>

ScalarFields ==
    {"plan", "final_report", "executive_summary", "limitations", "sources_analyzed"}

Writers(field) == {u \in 1..Len(updates) : field \in DOMAIN updates[u].output}

\* the value last written to a field by a partial update
LastWritten(field) ==
    LET u == CHOOSE v \in Writers(field) : \A w \in Writers(field) : w <= v
    IN  updates[u].output[field]

\* C10 as stated: in the state the response is built from, every list field
\* is the concatenation, in order, of the values it had in the partial
\* updates, and every scalar field written by an update holds the last value
\* written.
C10_ListsConcatenated ==
    pc # "idle" =>
        /\ \A f \in Appendable : final_state[f] = Concat(f)
        /\ \A f \in ScalarFields :
              Writers(f) # {} => final_state[f] = LastWritten(f)

----------------------------------------------------------------------------
(* The Plan stage *)

\* C11 as stated: when the research node starts, the plan has at least one
\* sub-question, whatever the planner's model call did.
C11_PlanNeverEmpty ==
    pc = "research" =>
        /\ graph_state.plan # None
        /\ Len(PlanItems) >= 1

\* the planner's model call failed: it raised, or its answer was not parsed
\* or not accepted
PlanCallFailed ==
    /\ calls # <<>>
    /\ calls[1].stage = "plan"
    /\ calls[1].outcome \in {"raise", "unparseable", "invalid"}

\* C12: when the planner's model call has raised or its answer could not be
\* parsed or validated, the plan returned has exactly one sub-question, whose
\* question is the query, whose search queries are the query alone and whose
\* priority is 1, and the planner's update carries an errors entry.
C12_FallbackPlan ==
    (PlanCallFailed /\ updates # <<>>) =>
        LET output == updates[1].output IN
        /\ updates[1].node = "plan"
        /\ output.plan # None
        /\ Len(output.plan[1].sub_questions) = 1
        /\ output.plan[1].sub_questions[1].question = query
        /\ output.plan[1].sub_questions[1].search_queries = <<query>>
        /\ output.plan[1].sub_questions[1].priority = 1
        /\ "errors" \in DOMAIN output
        /\ Len(output.errors) = 1
        /\ graph_state.plan = output.plan

C12_Witness ==
    /\ pc = "research"
    /\ PlanCallFailed
    /\ calls[1].outcome = "invalid"

----------------------------------------------------------------------------
(* The Write stage *)

AfterWrite == pc \in {"build", "stream", "done"}

ReportFields == {"final_report", "executive_summary", "key_takeaways", "limitations"}

\* C13: when the write_report node has run on an empty list of research
\* notes, the report of its update is the fixed message and the node has
\* issued no model call.
C13_EmptyEvidence ==
    (AfterWrite /\ Notes = <<>>) =>
        /\ updates[3].node = "write_report"
        /\ updates[3].output.final_report =
              Some(<<"Unable to generate report due to lack of research data.">>)
        /\ final_state.final_report = updates[3].output.final_report
        /\ \A i \in 1..Len(calls) : calls[i].stage # "write_report"

C13_Witness ==
    /\ pc = "done"
    /\ Notes = <<>>
    /\ Last(events).data.report =
          Some(<<"Unable to generate report due to lack of research data.">>)

\* C14: the update of the write_report node carries final_report,
\* executive_summary, key_takeaways and limitations under every outcome of its
\* model call and on empty research notes, and the state the response is built
\* from holds the values of that update.
C14_ReportFieldsPresent ==
    \A u \in 1..Len(updates) :
        updates[u].node = "write_report" =>
            /\ ReportFields \subseteq DOMAIN updates[u].output
            /\ \A f \in ReportFields : final_state[f] = updates[u].output[f]

C14_Witness ==
    /\ AfterWrite
    /\ Last(calls).stage = "write_report"
    /\ Last(calls).outcome = "ok"
    /\ updates[3].output.final_report = Some(<<>>)
    /\ updates[3].output.limitations = Some("")

----------------------------------------------------------------------------
(* Chunking *)

IsMessage(e) == e.type = "message"

\* the payloads of the message events emitted so far, in order
Emitted ==
    LET ms == SelectSeq(events, IsMessage) IN [i \in 1..Len(ms) |-> ms[i].data.content]

\* C15: while the report is streamed, the chunks emitted followed by the
\* chunks still to emit concatenate to the report of the response; when done
\* is emitted the emitted chunks concatenate to the report the done event
\* carries, every chunk but the last has ChunkSize elements, the last has
\* between 1 and ChunkSize, and there are ceil(L / ChunkSize) chunks for a
\* report of L elements.
C15_ChunkingExact ==
    /\ pc \in {"stream", "done"} =>
          Flatten(Emitted \o chunks) = response[1].report[1]
    /\ pc = "done" =>
          LET report == Last(events).data.report[1]
              n == Len(Emitted)
          IN  /\ Flatten(Emitted) = report
              /\ \A i \in 1..(n - 1) : Len(Emitted[i]) = ChunkSize
              /\ n > 0 => Len(Emitted[n]) \in 1..ChunkSize
              /\ n = (Len(report) + ChunkSize - 1) \div ChunkSize

C15_Witness ==
    /\ pc = "done"
    /\ Len(Emitted) >= 3
    /\ Len(Last(Emitted)) < ChunkSize

----------------------------------------------------------------------------
(* Counting and attributing sources *)

\* the distinct non-empty urls among the search results the research node got
UniqueUrls == {raw[j].result.url : j \in 1..Len(raw)} \ {""}

\* C16 as stated: the sources_analyzed of the done event is the number of
\* search results the research node consumed after deduplication by url.
C16_SourcesDeduplicated ==
    pc = "done" =>
        Last(events).data.metadata.sources_analyzed = Cardinality(UniqueUrls)

\* the places (note, position) of the sources of the research notes
SourcePlaces ==
    {p \in (1..Len(Notes)) \X (1..MaxQueries * MaxResults) :
        p[2] <= Len(Notes[p[1]].sources)}

\* C17: after the research node, no url is a source at two places: not in two
\* research notes and not twice in one; every source is a result of its
\* note's sub-question, and a url-bearing result is the source of some note
\* unless the note of its sub-question is a placeholder.
C17_RunWideDedup ==
    AfterResearch =>
        /\ \A p, q \in SourcePlaces :
              p # q => Notes[p[1]].sources[p[2]].url # Notes[q[1]].sources[q[2]].url
        /\ \A p \in SourcePlaces :
              /\ Notes[p[1]].sources[p[2]].url # ""
              /\ \E j \in 1..Len(raw) :
                    /\ raw[j].result.url = Notes[p[1]].sources[p[2]].url
                    /\ raw[j].item = Notes[p[1]].sub_question_id
        /\ graph_state.errors = <<>> =>
              \A u \in UniqueUrls : \E p \in SourcePlaces :
                  Notes[p[1]].sources[p[2]].url = u

C17_Witness ==
    /\ AfterResearch
    /\ Len(Notes) = 2
    /\ Notes[1].sources # <<>>
    /\ Notes[2].sources # <<>>
    /\ \E j, k \in 1..Len(raw) :
          /\ raw[j].item # raw[k].item
          /\ raw[j].result.url = raw[k].result.url
          /\ raw[j].result.url # ""

----------------------------------------------------------------------------
(* Order and number of the searches *)

\* the order in which a stable sort by priority visits the plan: position i
\* of the order holds the index in the plan of the i-th sub-question visited
ProcessingOrder ==
    LET n == Len(PlanItems) IN
    CHOOSE f \in [1..n -> 1..n] :
        \A i, j \in 1..n :
            i < j =>
                \/ PlanItems[f[i]].priority < PlanItems[f[j]].priority
                \/ /\ PlanItems[f[i]].priority = PlanItems[f[j]].priority
                   /\ f[i] < f[j]

IsSearch(c) == c.collaborator = "search"
SearchCalls == SelectSeq(calls, IsSearch)

\* the search calls expected of the plan: for each sub-question in processing
\* order, its first MaxQueries search queries in order
ExpectedSearches ==
    Flatten([i \in 1..Len(PlanItems) |->
        LET sq == PlanItems[ProcessingOrder[i]] IN
        [j \in 1..Min(Len(sq.search_queries), MaxQueries) |->
            [item |-> sq.id, query |-> sq.search_queries[j]]]])

\* C18: the research node searches for the sub-questions in ascending
\* priority, sub-questions of equal priority in the order of the plan, and the
\* research notes it returns are in that order.
C18_PriorityOrder ==
    AfterResearch =>
        /\ updates[2].output.research_notes = Notes
        /\ Len(Notes) = Len(PlanItems)
        /\ \A i \in 1..Len(Notes) :
              Notes[i].sub_question_id = PlanItems[ProcessingOrder[i]].id
        /\ [i \in 1..Len(SearchCalls) |-> SearchCalls[i].item]
              = [i \in 1..Len(ExpectedSearches) |-> ExpectedSearches[i].item]

C18_Witness ==
    /\ AfterResearch
    /\ Len(PlanItems) = 2
    /\ PlanItems[1].priority > PlanItems[2].priority
    /\ Notes[1].sub_question_id = PlanItems[2].id
    /\ Notes[2].sub_question_id = PlanItems[1].id

\* C19: the research node issues, for each sub-question, one search call for
\* each of its first 3 search queries, in order, and none for a later query;
\* every call passes a result cap of 3 and gets at most 3 results, so that
\* sources_analyzed is at most 9 times the number of sub-questions.
C19_SearchBudget ==
    AfterResearch =>
        /\ [i \in 1..Len(SearchCalls) |->
                [item |-> SearchCalls[i].item, query |-> SearchCalls[i].query]]
              = ExpectedSearches
        /\ Len(SearchCalls) <= 3 * Len(PlanItems)
        /\ \A c \in 1..Len(SearchCalls) :
              /\ SearchCalls[c].max_results = 3
              /\ SearchCalls[c].returned <= 3
        /\ updates[2].output.sources_analyzed = Len(raw)
        /\ updates[2].output.sources_analyzed <= 9 * Len(PlanItems)

C19_Witness ==
    /\ AfterResearch
    /\ Len(PlanItems) = 1
    /\ Len(PlanItems[1].search_queries) = 4
    /\ Len(SearchCalls) = 3
    /\ updates[2].output.sources_analyzed = 9

----------------------------------------------------------------------------
(* Order of the stages *)

Stages == <<"plan", "research", "write_report">>

\* the nodes that have returned an update, in order
Ran == [u \in 1..Len(updates) |-> updates[u].node]

StageRank(stage) == CHOOSE k \in 1..Len(Stages) : Stages[k] = stage

\* C20: the nodes that have run are plan, research and write_report in this
\* order, each at most once; a node's collaborator calls are all issued after
\* every node before it has returned and before any later node's, and the
\* node at the generator's position is the one after the last that returned.
C20_StagesInOrder ==
    /\ Len(Ran) <= Len(Stages)
    /\ Ran = SubSeq(Stages, 1, Len(Ran))
    /\ \A i, j \in 1..Len(calls) :
          i < j => StageRank(calls[i].stage) <= StageRank(calls[j].stage)
    /\ \A i \in 1..Len(calls) : StageRank(calls[i].stage) <= Len(Ran)
    /\ pc = "plan" => Ran = <<>>
    /\ pc = "research" => Ran = <<"plan">>
    /\ pc = "write" => Ran = <<"plan", "research">>
    /\ pc \in {"build", "stream", "done"} => Ran = Stages

C20_Witness ==
    /\ pc = "done"
    /\ Ran = Stages
    /\ {calls[i].stage : i \in 1..Len(calls)} = {"plan", "research", "write_report"}
    /\ Cardinality({i \in 1..Len(calls) : calls[i].stage = "research"}) >= 3

----------------------------------------------------------------------------
(* Citations of the research node and of the response *)

StageCitations == updates[2].output.citations

\* C27 as stated: after the research node, every non-empty url among the
\* results of its search calls is the url of exactly one citation of its
\* update, and no citation has an empty url.
C27_EveryUrlCited ==
    AfterResearch =>
        /\ \A u \in UniqueUrls :
              Cardinality({c \in 1..Len(StageCitations) : StageCitations[c].url = u}) = 1
        /\ \A c \in 1..Len(StageCitations) : StageCitations[c].url # ""

\* the events of a type, in order
EventsOf(type) == SelectSeq(events, LAMBDA e : e.type = type)

\* C28: in a run that has emitted done, the sub_question_count of the planning
\* event is the one of the done event's metadata, and the sources_analyzed of
\* the research_progress event is the one of the done event's metadata.
C28_CountsAgree ==
    pc = "done" =>
        LET metadata == Last(events).data.metadata IN
        /\ Len(EventsOf("planning")) = 1
        /\ Len(EventsOf("research_progress")) = 1
        /\ EventsOf("planning")[1].data.sub_question_count = metadata.sub_question_count
        /\ EventsOf("research_progress")[1].data.sources_analyzed = metadata.sources_analyzed

C28_Witness ==
    /\ pc = "done"
    /\ Last(events).data.metadata.sub_question_count = 2
    /\ Last(events).data.metadata.sources_analyzed > Len(Last(events).data.citations)
    /\ Last(calls).stage = "write_report"
    /\ Last(calls).outcome = "ok"

\* C29: the citations of the response are the citations of the state it is
\* built from, the same elements in the same order, which are the citations
\* the research node returned.
C29_FinalDedupIdentity ==
    /\ AfterResearch => final_state.citations = StageCitations
    /\ pc \in {"stream", "done"} =>
          response[1].citations = final_state.citations
    /\ pc = "done" => Last(events).data.citations = StageCitations

C29_Witness ==
    /\ pc = "done"
    /\ Len(Last(events).data.citations) >= 3
    /\ Len(raw) > Len(Last(events).data.citations)

----------------------------------------------------------------------------
(* Sub-questions without results *)

\* the results of the sub-question processed at position i that are unique:
\* with a url, and no earlier result of the run has that url
UniqueAt(i) ==
    {j \in 1..Len(raw) :
        /\ raw[j].pos = i
        /\ raw[j].result.url # ""
        /\ \A k \in 1..(j - 1) : raw[k].result.url # raw[j].result.url}

IsPlaceholder(note) == note.evidence_bullets = <<"Research incomplete due to error">>

\* C30: for a sub-question left without unique results after deduplication,
\* the research node issues no model call, its note has the fixed no-results
\* finding, the fixed open question and no sources; the errors of the node's
\* update are one entry per placeholder note, none for such a sub-question.
C30_NoResultsNoModelCall ==
    AfterResearch =>
        /\ \A i \in 1..Len(Notes) :
              UniqueAt(i) = {} =>
                  /\ \A c \in 1..Len(calls) :
                        (calls[c].stage = "research" /\ calls[c].collaborator = "llm")
                            => calls[c].pos # i
                  /\ Notes[i].evidence_bullets =
                        <<"No search results available for this question">>
                  /\ Notes[i].open_questions = <<"Unable to find relevant information">>
                  /\ Notes[i].sources = <<>>
        /\ Len(updates[2].output.errors)
              = Cardinality({i \in 1..Len(Notes) : IsPlaceholder(Notes[i])})

C30_Witness ==
    /\ AfterResearch
    /\ Len(Notes) = 2
    /\ UniqueAt(1) # {}
    /\ UniqueAt(2) = {}
    /\ \E j \in 1..Len(raw) : raw[j].pos = 2 /\ raw[j].result.url # ""
    /\ IsPlaceholder(Notes[1])

----------------------------------------------------------------------------
(* The search tool *)

Stubbed(c) == c.outcome \in {"stub", "fail"}

\* C23: every call of search returns a list of results; without a live
\* provider, or when the provider call fails, the list has exactly
\* min(5, max_results) elements, each with a title, a url and a content, the
\* urls are pairwise distinct, and two such calls with the same query and
\* max_results return the same list.
C23_StubFallback ==
    \A c \in 1..Len(calls) :
        calls[c].collaborator = "search" =>
            /\ calls[c].returned = Len(calls[c].results)
            /\ Stubbed(calls[c]) =>
                  /\ calls[c].returned = Min(StubResults, calls[c].max_results)
                  /\ \A i \in 1..calls[c].returned :
                        /\ calls[c].results[i].title # ""
                        /\ calls[c].results[i].url # ""
                        /\ calls[c].results[i].content # ""
                  /\ \A i, j \in 1..calls[c].returned :
                        i # j => calls[c].results[i].url # calls[c].results[j].url
                  /\ \A d \in 1..Len(calls) :
                        (/\ Stubbed(calls[d])
                         /\ calls[d].query = calls[c].query
                         /\ calls[d].max_results = calls[c].max_results)
                            => calls[d].results = calls[c].results

C23_Witness ==
    /\ Len(calls) = 2
    /\ calls[1].outcome = "stub"
    /\ calls[1].max_results = 7
    /\ calls[1].returned = 5
    /\ calls[2].outcome = "fail"
    /\ calls[2].max_results = 3
    /\ calls[2].returned = 3

----------------------------------------------------------------------------
(* The thread manager *)

\* C24: get_or_create_thread returns an identifier that is a key of the
\* registry and the thread stored under it; for the identifier of a thread it
\* returns that identifier and leaves the registry as it was; otherwise the
\* registry gains exactly one thread, with no message, under an identifier
\* that was no key before and is not the identifier sent, and every other
\* thread is left as it was.
C24_GetOrCreate ==
    lookup # None =>
        LET l == lookup[1] IN
        /\ l.thread_id \in DOMAIN l.after
        /\ l.thread = l.after[l.thread_id]
        /\ l.thread.thread_id = l.thread_id
        /\ Known(l.before, l.requested) =>
              /\ l.thread_id = l.requested[1]
              /\ l.after = l.before
        /\ ~Known(l.before, l.requested) =>
              /\ l.thread_id \notin DOMAIN l.before
              /\ DOMAIN l.after = DOMAIN l.before \cup {l.thread_id}
              /\ \A k \in DOMAIN l.before : l.after[k] = l.before[k]
              /\ l.thread.messages = <<>>
              /\ l.requested # None => l.thread_id # l.requested[1]

C24_Witness ==
    /\ lookup # None
    /\ Known(lookup[1].before, lookup[1].requested)
    /\ lookup[1].thread.messages # <<>>
    /\ Cardinality(DOMAIN threads) = 2

\* the messages the calls of add_message so far have sent to thread k while
\* it was in the registry, in the order of the calls
SentTo(k) ==
    LET sent == SelectSeq(calls, LAMBDA c : c.thread_id = k /\ k \in DOMAIN c.before)
    IN  [i \in 1..Len(sent) |-> [role |-> sent[i].role, content |-> sent[i].content]]

\* C31: a call of add_message for an identifier that is no key of the
\* registry leaves the registry as it was; a call for the identifier of a
\* thread leaves the keys as they were, appends exactly the one message to the
\* end of that thread's messages and leaves every other thread as it was; and
\* the history of every thread is the messages sent to it, in the order of
\* the calls.
C31_AddMessage ==
    /\ \A i \in 1..Len(calls) :
          LET c == calls[i] IN
          /\ c.thread_id \notin DOMAIN c.before => c.after = c.before
          /\ c.thread_id \in DOMAIN c.before =>
                /\ DOMAIN c.after = DOMAIN c.before
                /\ c.after[c.thread_id].thread_id = c.thread_id
                /\ c.after[c.thread_id].messages
                      = Append(c.before[c.thread_id].messages,
                               Message(c.role, c.content))
                /\ \A k \in DOMAIN c.before \ {c.thread_id} :
                      c.after[k] = c.before[k]
    /\ \A k \in DOMAIN threads : get_history(threads[k]) = SentTo(k)

C31_Witness ==
    /\ Len(calls) = 2
    /\ calls[1].thread_id \in DOMAIN calls[1].before
    /\ calls[2].thread_id \notin DOMAIN calls[2].before
    /\ Cardinality(DOMAIN threads) = 2
    /\ \E k \in DOMAIN threads : Len(threads[k].messages) = 1

----------------------------------------------------------------------------
(* Requests to the server *)

Requests == {1, 2}

\* the request r of the server, as a record
Run(r) == IF focus = r THEN Current ELSE other

Accepted == {r \in Requests : Run(r).http = 200}

\* the events of a run without the thread id they carry
Anonymous(evs) ==
    [i \in 1..Len(evs) |->
        [type |-> evs[i].type,
         data |-> IF "thread_id" \in DOMAIN evs[i].data
                  THEN [k \in DOMAIN evs[i].data \ {"thread_id"} |-> evs[i].data[k]]
                  ELSE evs[i].data]]

\* the non-empty urls among the search results of a run
UrlsOf(x) == {x.raw[j].result.url : j \in 1..Len(x.raw)} \ {""}

\* C21: of two runs with distinct thread ids whose steps interleave in any
\* order, each run's state carries its own query and thread id, its notes are
\* one per sub-question of its plan, its sources_analyzed counts its own
\* results, and every url among its own results is cited exactly once in its
\* citations whatever urls the other run has seen; two finished runs that had
\* the same query and the same collaborator answers have the same updates and,
\* but for the thread id, the same events.
C21_RunsIndependent ==
    Run(1).thread_id # Run(2).thread_id =>
        /\ \A r \in Requests :
              LET x == Run(r) IN
              /\ x.graph_state # None =>
                    /\ x.graph_state.query = x.query
                    /\ x.graph_state.thread_id = x.thread_id
                    /\ x.final_state.thread_id = x.thread_id
              /\ Len(x.updates) >= 2 =>
                    LET output == x.updates[2].output IN
                    /\ Len(output.research_notes)
                          = Len(x.updates[1].output.plan[1].sub_questions)
                    /\ output.sources_analyzed = Len(x.raw)
                    /\ \A u \in UrlsOf(x) :
                          Cardinality({c \in 1..Len(output.citations) :
                                          output.citations[c].url = u}) = 1
        /\ (/\ Run(1).pc = "done"
            /\ Run(2).pc = "done"
            /\ Run(1).query = Run(2).query
            /\ Run(1).calls = Run(2).calls
            /\ Run(1).raw = Run(2).raw)
              => /\ Run(1).updates = Run(2).updates
                 /\ Anonymous(Run(1).events) = Anonymous(Run(2).events)

C21_Witness ==
    /\ Run(1).thread_id # Run(2).thread_id
    /\ Run(1).pc = "done"
    /\ Run(2).pc = "stream"
    /\ Run(2).chunks = <<>>
    /\ UrlsOf(Run(1)) # {}
    /\ UrlsOf(Run(1)) = UrlsOf(Run(2))
    /\ Run(1).calls = Run(2).calls

\* C22: a run whose stream the subscriber has closed has emitted neither done
\* nor error, and from the step that closes it on its events never change.
C22_NoEventAfterDisconnect ==
    [][\A r \in Requests :
          Run(r)'.pc = "closed" =>
              /\ Run(r)'.events = Run(r).events
              /\ \A i \in 1..Len(Run(r).events) : ~IsTerminal(Run(r).events[i])]_vars

C22_Witness ==
    /\ pc = "closed"
    /\ chunks # <<>>
    /\ Last(events).type = "message"
    /\ other.pc = "done"

\* C25: a request whose message is empty or blank is answered 400 and has no
\* query, no thread id, no state, no update, no collaborator call and no
\* event; the registry holds one message for each accepted request and at
\* most one thread for each accepted request, so a rejected request has
\* created no thread and added no message.
C25_BlankRejected ==
    /\ \A r \in Requests :
          LET x == Run(r) IN
          /\ x.pc = "rejected" <=> x.http = 400
          /\ x.http = 400 =>
                /\ x.thread_id = ""
                /\ x.graph_state = None
                /\ x.events = <<>>
                /\ x.updates = <<>>
                /\ x.calls = <<>>
    /\ MessageCount(threads) = Cardinality(Accepted)
    /\ Cardinality(DOMAIN threads) <= Cardinality(Accepted)

C25_Witness ==
    /\ focus = 2
    /\ pc = "rejected"
    /\ other.pc = "done"
    /\ Cardinality(DOMAIN threads) = 1

\* C26: from the moment a request is accepted, before any event of its run,
\* the thread of the run is in the registry and holds the user's message;
\* the first event of the run announces that thread's id, and the done or
\* error event of the run carries it.
C26_ThreadOfRun ==
    \A r \in Accepted :
        LET x == Run(r) IN
        /\ x.thread_id \in DOMAIN threads
        /\ threads[x.thread_id].thread_id = x.thread_id
        /\ \E i \in 1..Len(threads[x.thread_id].messages) :
              threads[x.thread_id].messages[i] = Message("user", x.query)
        /\ x.events # <<>> =>
              /\ x.events[1].type = "thread_id"
              /\ x.events[1].data.thread_id = x.thread_id
        /\ \A i \in 1..Len(x.events) :
              IsTerminal(x.events[i]) => x.events[i].data.thread_id = x.thread_id

C26_Witness ==
    /\ Accepted = Requests
    /\ Run(1).thread_id = Run(2).thread_id
    /\ Len(threads[thread_id].messages) = 2
    /\ Run(1).pc = "done"
    /\ Run(2).pc = "idle"

====
